---- MODULE Spec2Model ----
(***************************************************************************)
(* KD_Lib: the two loop templates of the repository.                       *)
(*   BaseClass  (src/KD_Lib/common/base_class.py): train_teacher,          *)
(*              train_student, calculate_kd_loss, evaluate.                *)
(*   Quantizer  (src/KD_Lib/Quantization/common/base_class.py): quantize,  *)
(*              get_model_sizes, get_performance_statistics.               *)
(*                                                                         *)
(* A model's state_dict is an opaque value: it is represented by a version *)
(* number, and every optimizer step produces a version that none of the    *)
(* weights still referenced (models, snapshots, saved file) has.           *)
(* An accuracy correct/length is the pair <<correct, length>>, compared by *)
(* cross multiplication.  The train_loader yields num_batches batches of   *)
(* one sample each out of a dataset of length_of_dataset samples           *)
(* (num_batches < length_of_dataset: a sampler or drop_last left samples   *)
(* out).  kd_impl says whether a subclass overrides calculate_kd_loss.     *)
(***************************************************************************)
EXTENDS Integers, Sequences, FiniteSets, TLC

\* ---- bounds of the model ----
MaxEpochs == 2
MaxData == 2
MaxCalls == 2
MaxVal == 1
MaxTest == 2
MaxBytes == 2

Models == {"teacher", "student"}
Objs == {"m1", "m2"}

VARIABLES
    \* BaseClass: the objects it owns
    state_dict,          \* [Models -> version]: teacher_model / student_model weights
    training,            \* [Models -> BOOLEAN]: nn.Module.training (train / eval mode)
    best_model_weights,  \* [Models -> <<>> or <<version>>]: best_teacher_/best_student_model_weights
    kd_impl,             \* a subclass overrides calculate_kd_loss
    length_of_dataset,   \* len(self.train_loader.dataset)
    num_batches,         \* batches one pass over self.train_loader yields
    \* the running call: position and locals
    pc, method, epochs, plot_losses, save_model, ep, batch, correct, best_acc, loss_arr,
    \* what the running call did (observations)
    pre, hist, n, opt_steps, saved, plotted, exc, prev_best_acc, calls,
    eval_model, printed,
    \* Quantizer
    q_model, q_quantized_model, q_training, q_nbytes, q_hits, q_test_len, q_pre, q_out

base_vars == <<state_dict, training, best_model_weights, kd_impl,
               length_of_dataset, num_batches,
               pc, method, epochs, plot_losses, save_model, ep, batch, correct,
               best_acc, loss_arr,
               pre, hist, n, opt_steps, saved, plotted, exc, prev_best_acc,
               calls, eval_model, printed>>
q_vars == <<q_model, q_quantized_model, q_training, q_nbytes, q_hits, q_test_len,
           q_pre, q_out>>
vars == <<base_vars, q_vars>>

\* ---- accuracies: correct / length as a pair ----
Acc(c, len) == <<c, len>>
Greater(a, b) == a[1] * b[2] > b[1] * a[2]
SameAcc(a, b) == a[1] * b[2] = b[1] * a[2]

\* best_acc = 0.0
InitialBestAccNegative == Acc(0 - 1, 1)
InitialBestAcc == Acc(0, 1)

\* the value best_acc has after the entry of a training call
EntryBestAccCarried == best_acc
EntryBestAcc == InitialBestAcc

\* if epoch_acc > best_acc
IsBetterOrEqual(epoch_acc, best) == ~Greater(best, epoch_acc)
IsBetter(epoch_acc, best) == Greater(epoch_acc, best)

\* the model a training method trains
Trained(mth) == IF mth = "train_teacher" THEN "teacher" ELSE "student"
M == Trained(method)

Idle == {"idle", "done", "raised"}
NoCounts == [forward |-> 0, zero_grad |-> 0, backward |-> 0, check |-> 0]
NoSteps == [m \in Models |-> 0]
Snapshot == [weights |-> state_dict, training |-> training, best |-> best_model_weights]

\* for ep in range(epochs): for (data, label) in self.train_loader:
LoopHead(e, total) ==
    IF e < total
    THEN IF num_batches > 0 THEN "forward" ELSE "epoch_end"
    ELSE "finish"

\* the inner loop after a batch: the next batch, or the end of the epoch
AfterBatchCheckEveryBatch(b) == "epoch_end"
AfterBatch(b) == IF b < num_batches THEN "forward" ELSE "epoch_end"

\* ---- BaseClass.__init__ ----
InitBaseWith(len, nb, kd) ==
    /\ state_dict = [m \in Models |-> 0]
    /\ training = [m \in Models |-> TRUE]
    /\ best_model_weights = [m \in Models |-> <<>>]
    /\ kd_impl = kd
    /\ length_of_dataset = len
    /\ num_batches = nb
    /\ pc = "idle"
    /\ method = "__init__"
    /\ epochs = 0
    /\ plot_losses = FALSE
    /\ save_model = FALSE
    /\ ep = 0
    /\ batch = 0
    /\ correct = 0
    /\ best_acc = InitialBestAcc
    /\ loss_arr = 0
    /\ pre = [weights |-> [m \in Models |-> 0],
              training |-> [m \in Models |-> TRUE],
              best |-> [m \in Models |-> <<>>]]
    /\ hist = <<>>
    /\ n = NoCounts
    /\ opt_steps = NoSteps
    /\ saved = <<>>
    /\ plotted = <<>>
    /\ exc = "none"
    /\ prev_best_acc = InitialBestAcc
    /\ calls = 0
    /\ eval_model = <<>>
    /\ printed = <<>>

InitBase ==
    \E len \in 0..MaxData, kd \in BOOLEAN :
        \E nb \in 0..len : InitBaseWith(len, nb, kd)

\* the locals and observations every call starts with.  plot_losses and
\* save_model are read only after the epoch loop: they are drawn where
\* train_teacher / train_student read them, and hold FALSE until then.
NewCall(mth) ==
    /\ method' = mth
    /\ pre' = Snapshot
    /\ hist' = <<>>
    /\ n' = NoCounts
    /\ opt_steps' = NoSteps
    /\ saved' = <<>>
    /\ plotted' = <<>>
    /\ ep' = 0
    /\ batch' = 0
    /\ correct' = 0
    /\ loss_arr' = 0
    /\ plot_losses' = FALSE
    /\ save_model' = FALSE

\* the modes train_teacher sets on entry
TeacherEntryTraining == [training EXCEPT !["teacher"] = TRUE]

\* ---- train_teacher: entry, up to the head of the epoch loop ----
TrainTeacher(e) ==
    /\ pc \in Idle
    /\ calls < MaxCalls
    /\ NewCall("train_teacher")
    /\ exc' = "none"
    /\ eval_model' = <<>>
    /\ printed' = <<>>
    /\ calls' = calls + 1
    /\ epochs' = e
    /\ training' = TeacherEntryTraining
    /\ best_acc' = EntryBestAcc
    /\ prev_best_acc' = best_acc
    /\ best_model_weights' =
           [best_model_weights EXCEPT !["teacher"] = <<state_dict["teacher"]>>]
    /\ pc' = LoopHead(0, e)
    /\ UNCHANGED q_vars
    /\ UNCHANGED <<state_dict, kd_impl, length_of_dataset, num_batches>>

\* the modes train_student sets on entry
StudentEntryTraining == [training EXCEPT !["teacher"] = FALSE, !["student"] = TRUE]

\* ---- train_student: entry, up to the head of the epoch loop ----
TrainStudent(e) ==
    /\ pc \in Idle
    /\ calls < MaxCalls
    /\ NewCall("train_student")
    /\ exc' = "none"
    /\ eval_model' = <<>>
    /\ printed' = <<>>
    /\ calls' = calls + 1
    /\ epochs' = e
    /\ training' = StudentEntryTraining
    /\ best_acc' = EntryBestAcc
    /\ prev_best_acc' = best_acc
    /\ best_model_weights' =
           [best_model_weights EXCEPT !["student"] = <<state_dict["student"]>>]
    /\ pc' = LoopHead(0, e)
    /\ UNCHANGED q_vars
    /\ UNCHANGED <<state_dict, kd_impl, length_of_dataset, num_batches>>

InCallFrame == <<state_dict, training, best_model_weights, kd_impl,
                 length_of_dataset, num_batches, method, epochs,
                 plot_losses, save_model, ep, best_acc, loss_arr, pre, hist, saved,
                 plotted, prev_best_acc, calls, eval_model, printed>>

\* ---- train_teacher: forward pass of one batch, prediction count, loss ----
ForwardTeacher ==
    /\ pc = "forward"
    /\ method = "train_teacher"
    /\ \E c \in 0..1 : correct' = correct + c
    /\ n' = [n EXCEPT !.forward = @ + 1]
    /\ pc' = "zero_grad"
    /\ UNCHANGED q_vars
    /\ UNCHANGED <<InCallFrame, batch, opt_steps, exc>>

\* ---- calculate_kd_loss: raises unless a subclass overrides it ----
KdLossRaises == ~kd_impl

\* ---- train_student: forward passes of one batch, KD loss, prediction count ----
ForwardStudent ==
    /\ pc = "forward"
    /\ method = "train_student"
    /\ \/ /\ KdLossRaises
          /\ exc' = "NotImplementedError"
          /\ pc' = "raised"
          /\ UNCHANGED <<correct, n>>
       \/ /\ ~KdLossRaises
          /\ \E c \in 0..1 : correct' = correct + c
          /\ n' = [n EXCEPT !.forward = @ + 1]
          /\ pc' = "zero_grad"
          /\ UNCHANGED exc
    /\ UNCHANGED q_vars
    /\ UNCHANGED <<InCallFrame, batch, opt_steps>>

\* ---- optimizer.zero_grad() ----
ZeroGrad ==
    /\ pc = "zero_grad"
    /\ n' = [n EXCEPT !.zero_grad = @ + 1]
    /\ pc' = "backward"
    /\ UNCHANGED q_vars
    /\ UNCHANGED <<InCallFrame, batch, correct, opt_steps, exc>>

\* ---- loss.backward() ----
Backward ==
    /\ pc = "backward"
    /\ n' = [n EXCEPT !.backward = @ + 1]
    /\ pc' = "step"
    /\ UNCHANGED q_vars
    /\ UNCHANGED <<InCallFrame, batch, correct, opt_steps, exc>>

\* the weights still referenced somewhere, and a version none of them has:
\* what an optimizer step leaves in the model
SeqRange(q) == {q[i] : i \in 1..Len(q)}
Live ==
    {state_dict[m] : m \in Models} \cup {pre.weights[m] : m \in Models}
    \cup UNION {SeqRange(best_model_weights[m]) : m \in Models}
    \cup UNION {SeqRange(pre.best[m]) : m \in Models}
    \cup {hist[i].w : i \in 1..Len(hist)} \cup SeqRange(saved)
FreshVersion ==
    CHOOSE v \in 0..Cardinality(Live) :
        v \notin Live /\ \A u \in 0..(v - 1) : u \in Live

\* the model whose parameters the stepped optimizer holds
SteppedOther == IF M = "teacher" THEN "student" ELSE "teacher"
Stepped == M

\* ---- optimizer.step(); epoch_loss += loss; on to the next batch ----
Step ==
    /\ pc = "step"
    /\ state_dict' = [state_dict EXCEPT ![Stepped] = FreshVersion]
    /\ opt_steps' = [opt_steps EXCEPT ![Stepped] = @ + 1]
    /\ batch' = batch + 1
    /\ pc' = AfterBatch(batch + 1)
    /\ UNCHANGED q_vars
    /\ UNCHANGED <<training, best_model_weights, kd_impl, length_of_dataset,
                   num_batches, method, epochs, plot_losses, save_model,
                   ep, correct, best_acc, loss_arr, pre, hist, n, saved, plotted, exc,
                   prev_best_acc, calls, eval_model, printed>>

\* the snapshot after the best-weights check of an epoch
BestAfterNoCopy(m, epoch_acc) == best_model_weights
BestAfter(m, epoch_acc) ==
    IF IsBetter(epoch_acc, best_acc)
    THEN [best_model_weights EXCEPT ![m] = <<state_dict[m]>>]
    ELSE best_model_weights

\* ---- end of an epoch: epoch_acc, the best-weights check, loss_arr.append ----
EpochEnd ==
    /\ pc = "epoch_end"
    /\ \/ /\ length_of_dataset = 0
          /\ exc' = "ZeroDivisionError"
          /\ pc' = "raised"
          /\ UNCHANGED <<best_acc, best_model_weights, loss_arr, hist, n, ep, batch,
                         correct>>
       \/ /\ length_of_dataset > 0
          /\ LET epoch_acc == Acc(correct, length_of_dataset) IN
             /\ best_acc' = IF IsBetter(epoch_acc, best_acc) THEN epoch_acc ELSE best_acc
             /\ best_model_weights' = BestAfter(M, epoch_acc)
             /\ hist' = Append(hist, [acc |-> epoch_acc, w |-> state_dict[M],
                                      best |-> best_acc'])
          /\ loss_arr' = loss_arr + 1
          /\ n' = [n EXCEPT !.check = @ + 1]
          /\ ep' = ep + 1
          /\ batch' = 0
          /\ correct' = IF ep + 1 < epochs THEN 0 ELSE correct
          /\ pc' = LoopHead(ep + 1, epochs)
          /\ UNCHANGED exc
    /\ UNCHANGED q_vars
    /\ UNCHANGED <<state_dict, training, kd_impl, length_of_dataset,
                   num_batches, method, epochs, plot_losses, save_model,
                   pre, opt_steps, saved, plotted, prev_best_acc, calls,
                   eval_model, printed>>

\* the weights load_state_dict puts back into the model
RestoredLastEpoch(m) == state_dict[m]
Restored(m) == best_model_weights[m][1]

\* ---- after the loop: load_state_dict(best), torch.save, plt.plot ----
Finish(p, s) ==
    /\ pc = "finish"
    /\ plot_losses' = p
    /\ save_model' = s
    /\ LET w == Restored(M) IN
       /\ state_dict' = [state_dict EXCEPT ![M] = w]
       /\ saved' = IF s THEN <<w>> ELSE <<>>
    /\ plotted' = IF p THEN <<loss_arr>> ELSE <<>>
    /\ pc' = "done"
    /\ UNCHANGED q_vars
    /\ UNCHANGED <<training, best_model_weights, kd_impl,
                   length_of_dataset, num_batches, method, epochs,
                   ep, batch, correct, best_acc, loss_arr,
                   pre, hist, n, opt_steps, exc, prev_best_acc, calls, eval_model,
                   printed>>

\* the modes of the two models after evaluate ran model.eval() on its copy
TrainingAfterEvaluateInPlace(m) == [training EXCEPT ![m] = FALSE]
TrainingAfterEvaluate(m) == training

\* ---- evaluate(teacher): deepcopy, eval(), count, print ----
\* val_length is len(self.val_loader.dataset), drawn where evaluate reads it
Evaluate(teacher, val_length) ==
    /\ pc \in Idle
    /\ LET m == IF teacher THEN "teacher" ELSE "student" IN
       /\ NewCall("evaluate")
       /\ eval_model' = <<[of |-> m, weights |-> state_dict[m], training |-> FALSE]>>
       /\ training' = TrainingAfterEvaluate(m)
    /\ epochs' = 0
    /\ \/ /\ val_length = 0
          /\ exc' = "ZeroDivisionError"
          /\ printed' = <<>>
          /\ pc' = "raised"
       \/ /\ val_length > 0
          /\ \E c \in 0..val_length : printed' = <<Acc(c, val_length)>>
          /\ exc' = "none"
          /\ pc' = "done"
    /\ UNCHANGED q_vars
    /\ UNCHANGED <<state_dict, best_model_weights, kd_impl,
                   length_of_dataset, num_batches, best_acc, prev_best_acc,
                   calls>>

BaseNext ==
    \/ \E e \in 0..MaxEpochs : TrainTeacher(e)
    \/ \E e \in 0..MaxEpochs : TrainStudent(e)
    \/ ForwardTeacher
    \/ ForwardStudent
    \/ ZeroGrad
    \/ Backward
    \/ Step
    \/ EpochEnd
    \/ \E p \in BOOLEAN, s \in BOOLEAN : Finish(p, s)
    \/ \E t \in BOOLEAN, vl \in 0..MaxVal : Evaluate(t, vl)

\* ---- Quantizer ----
\* A model object is one of Objs; q_nbytes[o] is the size of the file
\* torch.save(o.state_dict()) writes and q_hits[o] the number of test samples o
\* classifies correctly in evaluation mode.

\* self.quantized_model = model
QuantizedAtInitCopy(mdl) == CHOOSE o \in Objs : o # mdl
QuantizedAtInit(mdl) == mdl

NoOutput == <<>>
QFields == [model |-> q_model, quantized_model |-> q_quantized_model,
            test_len |-> q_test_len, training |-> q_training]

\* ---- Quantizer.__init__ ----
QInitWith(mdl, tr, nb, hits, tl) ==
    /\ q_model = mdl
    /\ q_quantized_model = QuantizedAtInit(mdl)
    /\ q_training = tr
    /\ q_nbytes = nb
    /\ q_hits = hits
    /\ q_test_len = tl
    /\ q_pre = [model |-> mdl, quantized_model |-> QuantizedAtInit(mdl),
                test_len |-> tl, training |-> tr]
    /\ q_out = [op |-> "__init__", exc |-> "none",
                original |-> NoOutput, quantized |-> NoOutput]

QFixed ==
    QInitWith("m1", [o \in Objs |-> TRUE], [o \in Objs |-> 1], [o \in Objs |-> 0], 0)

QInitDrawn ==
    \E mdl \in Objs, tl \in 0..MaxTest :
        \E tr \in [Objs -> BOOLEAN], nb \in [Objs -> 1..MaxBytes],
           hits \in [Objs -> 0..tl] :
            QInitWith(mdl, tr, nb, hits, tl)

QInitSmall ==
    \E b \in BOOLEAN, tl \in {0, MaxTest} :
        QInitWith("m1", [o \in Objs |-> b], [o \in Objs |-> 1], [o \in Objs |-> tl], tl)

\* ---- quantize: the base class raises ----
Quantize ==
    /\ q_pre' = QFields
    /\ q_out' = [op |-> "quantize", exc |-> "NotImplementedError",
                 original |-> NoOutput, quantized |-> NoOutput]
    /\ UNCHANGED <<q_model, q_quantized_model, q_training, q_nbytes, q_hits, q_test_len>>
    /\ UNCHANGED base_vars

\* ---- _get_size_of_model: getsize("temp.p") / 1e6 ----
SizeOfModel(o) == <<q_nbytes[o], 1000000>>

\* ---- get_model_sizes ----
GetModelSizes ==
    /\ q_pre' = QFields
    /\ q_out' = [op |-> "get_model_sizes", exc |-> "none",
                 original |-> SizeOfModel(q_model),
                 quantized |-> SizeOfModel(q_quantized_model)]
    /\ UNCHANGED <<q_model, q_quantized_model, q_training, q_nbytes, q_hits, q_test_len>>
    /\ UNCHANGED base_vars

\* ---- _evaluate_model: model.eval() on the model it is given ----
ModesAfterEvaluateModel(tr, o) == [tr EXCEPT ![o] = FALSE]

\* ---- get_performance_statistics: _time_model_evaluation of both models ----
GetPerformanceStatistics ==
    /\ q_pre' = QFields
    /\ \/ /\ q_test_len = 0
          /\ q_training' = ModesAfterEvaluateModel(q_training, q_model)
          /\ q_out' = [op |-> "get_performance_statistics",
                       exc |-> "ZeroDivisionError",
                       original |-> NoOutput, quantized |-> NoOutput]
       \/ /\ q_test_len > 0
          /\ q_training' = ModesAfterEvaluateModel(
                               ModesAfterEvaluateModel(q_training, q_model),
                               q_quantized_model)
          /\ q_out' = [op |-> "get_performance_statistics", exc |-> "none",
                       original |-> Acc(q_hits[q_model], q_test_len),
                       quantized |-> Acc(q_hits[q_quantized_model], q_test_len)]
    /\ UNCHANGED <<q_model, q_quantized_model, q_nbytes, q_hits, q_test_len>>
    /\ UNCHANGED base_vars

QNext ==
    \/ Quantize
    \/ GetModelSizes
    \/ GetPerformanceStatistics

\* ---- BaseClass alone ----
Init == InitBase /\ QFixed
Next == BaseNext
Spec == Init /\ [][Next]_vars

\* ---- Quantizer alone ----
QInit == InitBaseWith(0, 0, FALSE) /\ QInitDrawn
QSpec == QInit /\ [][QNext]_vars

\* ---- one program using both classes, a method call at a time ----
BothInit == InitBaseWith(1, 1, TRUE) /\ QInitSmall
BothNext ==
    \/ BaseNext
    \/ pc \in Idle /\ Quantize
    \/ pc \in Idle /\ GetModelSizes
    \/ pc \in Idle /\ GetPerformanceStatistics
BothSpec == BothInit /\ [][BothNext]_vars

\* ======================= the claims =======================
\* the accuracy 0.0
ZeroAcc == Acc(0, 1)
InTraining == method \in {"train_teacher", "train_student"}
Epochs == 1..Len(hist)
Positive(a) == Greater(a, ZeroAcc)
SomePositive == \E i \in Epochs : Positive(hist[i].acc)
IsMaxAt(i) == \A j \in Epochs : ~Greater(hist[j].acc, hist[i].acc)
FirstMaxAt(i) == IsMaxAt(i) /\ \A j \in 1..(i - 1) : Greater(hist[i].acc, hist[j].acc)
SeveralReach(i) == \E j \in Epochs : j # i /\ SameAcc(hist[j].acc, hist[i].acc)
\* what the entry weights and the epochs of the running call alone determine
ExpectedBest ==
    IF SomePositive
    THEN hist[CHOOSE i \in Epochs : FirstMaxAt(i)].w
    ELSE pre.weights[M]

\* C1 (as stated): after every completed epoch the snapshot is the state
\* captured at the end of an epoch whose accuracy is the maximum seen so far.
C1_SnapshotIsOfAMaxEpoch ==
    (InTraining /\ Len(hist) >= 1) =>
        \E i \in Epochs : IsMaxAt(i) /\ best_model_weights[M] = <<hist[i].w>>

\* C1 (amended): after every completed epoch the snapshot goes with
\* best_acc = max(0.0, the epoch accuracies so far): if some epoch had an
\* accuracy above 0.0 it is the state captured at the end of an epoch whose
\* accuracy is the maximum, otherwise it is the weights the call started with.
C1_SnapshotIsOfAMaxEpochOrEntry ==
    (InTraining /\ Len(hist) >= 1) =>
        IF SomePositive
        THEN \E i \in Epochs :
                 /\ IsMaxAt(i)
                 /\ best_model_weights[M] = <<hist[i].w>>
                 /\ SameAcc(best_acc, hist[i].acc)
        ELSE /\ best_model_weights[M] = <<pre.weights[M]>>
             /\ SameAcc(best_acc, ZeroAcc)

C1_Witness ==
    /\ InTraining /\ Len(hist) = 2
    /\ Positive(hist[1].acc)
    /\ Greater(hist[1].acc, hist[2].acc)
    /\ hist[1].w # hist[2].w
    /\ hist[1].w # pre.weights[M]

\* C2: forward, zero_grad, backward, step follow each other batch by batch;
\* the best-weights check comes once an epoch, after all its batches; a call
\* that returns took epochs * num_batches optimizer steps and epochs checks;
\* nothing is saved or plotted before the last epoch's check.
C2_LoopOrder ==
    InTraining =>
        LET k == opt_steps[M] IN
        /\ k <= n.backward /\ n.backward <= n.zero_grad
        /\ n.zero_grad <= n.forward /\ n.forward <= k + 1
        /\ num_batches * n.check <= k
        /\ n.forward <= num_batches * (n.check + 1)
        /\ n.check <= epochs
        /\ (pc = "zero_grad" => n.forward = n.zero_grad + 1)
        /\ (pc = "backward" => n.zero_grad = n.backward + 1)
        /\ (pc = "step" => n.backward = k + 1)
        /\ (pc = "epoch_end" => k = num_batches * (n.check + 1))
        /\ ((pc \in {"finish", "done"} \/ saved # <<>> \/ plotted # <<>>) =>
                n.check = epochs /\ k = epochs * num_batches)

C2_Witness ==
    /\ InTraining /\ pc = "done"
    /\ epochs = 2 /\ num_batches = 2
    /\ opt_steps[M] = 4 /\ n.check = 2

\* C3: on a normal return the live weights are the best snapshot; the model is
\* saved exactly when save_model is true, and what is saved is that snapshot;
\* the loss curve is plotted exactly when plot_losses is true.
C3_ReturnsBest ==
    (InTraining /\ pc = "done") =>
        /\ <<state_dict[M]>> = best_model_weights[M]
        /\ (saved # <<>>) = save_model
        /\ (save_model => saved = best_model_weights[M])
        /\ (plotted # <<>>) = plot_losses
        /\ (plot_losses => plotted = <<epochs>>)

C3_Witness ==
    /\ InTraining /\ pc = "done"
    /\ save_model /\ ~plot_losses
    /\ Len(hist) = 2
    /\ hist[2].w # state_dict[M]
    /\ state_dict[M] # pre.weights[M]

\* C4 (as stated): on the base class train_student with epochs >= 1 and a
\* non-empty train_loader ends with NotImplementedError before any step, save
\* or plot, the student's weights and snapshot being the entry weights; with
\* epochs = 0 or an empty train_loader it completes without raising.
C4_BaseTrainStudent ==
    (method = "train_student" /\ ~kd_impl /\ pc \in {"done", "raised"}) =>
        IF epochs >= 1 /\ num_batches >= 1
        THEN /\ pc = "raised" /\ exc = "NotImplementedError"
             /\ opt_steps["student"] = 0
             /\ saved = <<>> /\ plotted = <<>>
             /\ state_dict["student"] = pre.weights["student"]
             /\ best_model_weights["student"] = <<pre.weights["student"]>>
        ELSE pc = "done"

\* C5: quantized_model is the very model, quantize raises and changes no
\* field, and the two sizes and the two accuracies reported are equal.
C5_QuantizedIsModel ==
    /\ q_quantized_model = q_model
    /\ (q_out.op = "quantize" =>
            q_out.exc = "NotImplementedError" /\ QFields = q_pre)
    /\ (q_out.op = "get_model_sizes" =>
            q_out.original # NoOutput /\ q_out.original = q_out.quantized)
    /\ ((q_out.op = "get_performance_statistics" /\ q_out.exc = "none") =>
            q_out.original # NoOutput /\ q_out.original = q_out.quantized)

C5_Witness ==
    /\ q_out.op = "get_performance_statistics" /\ q_out.exc = "none"
    /\ \E o \in Objs : q_hits[o] # q_hits[q_model] /\ q_nbytes[o] # q_nbytes[q_model]

\* C6 (as stated): when several epochs reach the same maximal accuracy the
\* snapshot is the one of the earliest of them; best_acc never decreases.
C6_EarliestOfEqualMaxima ==
    (InTraining /\ Len(hist) >= 1) =>
        /\ \A i \in Epochs :
               (FirstMaxAt(i) /\ SeveralReach(i)) =>
                   best_model_weights[M] = <<hist[i].w>>
        /\ \A i \in Epochs, j \in Epochs :
               i < j => ~Greater(hist[i].best, hist[j].best)

\* C6 (amended): when several epochs reach the same maximal accuracy and it is
\* above 0.0, the snapshot is the one of the earliest of them; when the maximal
\* accuracy is 0.0 the snapshot taken on entry is kept; best_acc never
\* decreases.
C6_EarliestOfEqualPositiveMaxima ==
    (InTraining /\ Len(hist) >= 1) =>
        /\ \A i \in Epochs :
               (FirstMaxAt(i) /\ SeveralReach(i)) =>
                   IF Positive(hist[i].acc)
                   THEN best_model_weights[M] = <<hist[i].w>>
                   ELSE best_model_weights[M] = <<pre.weights[M]>>
        /\ ~Greater(ZeroAcc, hist[1].best)
        /\ \A i \in Epochs, j \in Epochs :
               i < j => ~Greater(hist[i].best, hist[j].best)

C6_Witness ==
    /\ InTraining /\ Len(hist) = 2
    /\ Positive(hist[1].acc)
    /\ SameAcc(hist[1].acc, hist[2].acc)
    /\ hist[1].w # hist[2].w
    /\ best_model_weights[M] = <<hist[1].w>>

\* C7: a call in which no epoch has an accuracy above 0.0 returns the model
\* with the weights it had on entry, after epochs * num_batches optimizer
\* steps; the snapshot is the state at the end of no epoch that took a step.
C7_NoPositiveEpochReturnsEntry ==
    (InTraining /\ pc = "done" /\ ~SomePositive) =>
        /\ state_dict[M] = pre.weights[M]
        /\ best_model_weights[M] = <<pre.weights[M]>>
        /\ opt_steps[M] = epochs * num_batches
        /\ (num_batches > 0 =>
                \A i \in Epochs : best_model_weights[M] # <<hist[i].w>>)

C7_Witness ==
    /\ InTraining /\ pc = "done" /\ ~SomePositive
    /\ epochs = 2 /\ opt_steps[M] >= 2
    /\ hist[2].w # state_dict[M]

\* C8: every training call starts from best_acc = 0.0 and a snapshot of the
\* entry weights, and what it returns is determined by the entry weights and
\* its own epochs; the accuracy an earlier call reached plays no part.
C8_EachCallStartsOver ==
    InTraining =>
        /\ (hist = <<>> =>
                /\ SameAcc(best_acc, ZeroAcc)
                /\ best_model_weights[M] = <<pre.weights[M]>>)
        /\ (pc \in {"finish", "done"} => best_model_weights[M] = <<ExpectedBest>>)
        /\ (pc = "done" => state_dict[M] = ExpectedBest)

C8_Witness ==
    /\ InTraining /\ pc = "done" /\ calls >= 2
    /\ pre.best[M] # <<>>
    /\ Greater(prev_best_acc, best_acc)
    /\ Positive(best_acc)
    /\ state_dict[M] # pre.weights[M]

\* C9: train_student keeps the teacher in evaluation mode, steps only
\* optimizer_student and leaves the teacher's weights and snapshot as they
\* were; train_teacher steps only optimizer_teacher and leaves the student's
\* weights and snapshot as they were.
C9_OtherModelUntouched ==
    /\ (method = "train_student" =>
            /\ ~training["teacher"]
            /\ opt_steps["teacher"] = 0
            /\ state_dict["teacher"] = pre.weights["teacher"]
            /\ best_model_weights["teacher"] = pre.best["teacher"])
    /\ (method = "train_teacher" =>
            /\ opt_steps["student"] = 0
            /\ state_dict["student"] = pre.weights["student"]
            /\ best_model_weights["student"] = pre.best["student"])

C9_Witness ==
    /\ method = "train_student" /\ pc = "done"
    /\ opt_steps["student"] >= 2
    /\ pre.training["teacher"]
    /\ best_model_weights["teacher"] # <<>>
    /\ state_dict["teacher"] # 0

\* C10: evaluate runs on a copy: the weights, the modes and the snapshots of
\* both models are as before the call, and the copy is in evaluation mode;
\* Quantizer._evaluate_model puts the model it is given in evaluation mode.
C10_EvaluateOnCopy ==
    /\ (method = "evaluate" =>
            /\ Snapshot = pre
            /\ eval_model # <<>>
            /\ ~eval_model[1].training
            /\ eval_model[1].weights = state_dict[eval_model[1].of])
    /\ (q_out.op = "get_performance_statistics" =>
            /\ ~q_training[q_model]
            /\ (q_out.exc = "none" => ~q_training[q_quantized_model]))

C10_Witness ==
    /\ method = "evaluate" /\ pc = "done"
    /\ eval_model[1].of = "teacher"
    /\ training["teacher"]
    /\ best_model_weights["teacher"] # <<>>
    /\ state_dict["teacher"] # 0
    /\ q_out.op = "get_performance_statistics"
    /\ q_pre.training[q_model]
====
